---------------------------- MODULE Spec2Model ----------------------------
(***************************************************************************)
(* The fetch-retry-normalize-persist pipeline of make_files_tree.py:       *)
(* crawl (the retry driver), _crawl (fetch, classify, derive the path,     *)
(* normalize, write), collect_translations_paginated_content (the          *)
(* paginated collector) and _crawl_web (the batch).                        *)
(*                                                                         *)
(* A Python str is a sequence of one-character strings, so that `in`,      *)
(* split, re.search and re.sub are computed character by character.        *)
(***************************************************************************)
EXTENDS Integers, Sequences, FiniteSets, TLC

(***************************************************************************)
(* Python str operations                                                   *)
(***************************************************************************)

\* F applied to x, with x computed once (an argument is computed once in
\* Python; here an operator's argument is computed at each of its uses).
once(F(_), x) == CHOOSE r \in {F(y) : y \in {x}} : TRUE

\* Python `p in s` on two str: p is a (possibly empty) substring of s.
str_in(p, s) ==
    /\ Len(p) <= Len(s)
    /\ \E i \in 0..(Len(s) - Len(p)) : SubSeq(s, i + 1, i + Len(p)) = p

\* s[i:] starts with the literal lit (i is 1-based).
StartsWithAt(s, i, lit) ==
    /\ i >= 1
    /\ i + Len(lit) - 1 <= Len(s)
    /\ \A k \in 1..Len(lit) : s[i + k - 1] = lit[k]

\* Python s.split(sep) for a one-character sep.
RECURSIVE str_split(_, _)
str_split(s, sep) ==
    IF \A i \in 1..Len(s) : s[i] # sep
    THEN <<s>>
    ELSE LET i == CHOOSE k \in 1..Len(s) :
                      s[k] = sep /\ \A j \in 1..(k - 1) : s[j] # sep
         IN  <<SubSeq(s, 1, i - 1)>>
                 \o once(LAMBDA rest : str_split(rest, sep), SubSeq(s, i + 1, Len(s)))

\* posixpath.join(a, *parts) for parts that do not start with '/'.
RECURSIVE path_join(_, _)
path_join(a, parts) ==
    IF parts = <<>>
    THEN a
    ELSE once(LAMBDA joined : path_join(joined, Tail(parts)),
              (IF a = <<>> \/ a[Len(a)] = "/" THEN a ELSE a \o <<"/">>)
                  \o Head(parts))

\* s.rstrip('/')
RECURSIVE rstrip_slash(_)
rstrip_slash(s) ==
    IF s # <<>> /\ s[Len(s)] = "/" THEN rstrip_slash(SubSeq(s, 1, Len(s) - 1)) ELSE s

\* posixpath.dirname(p): everything before the last '/', trailing slashes
\* stripped unless the head is nothing but slashes.
path_dirname(p) ==
    LET slashes == {k \in 1..Len(p) : p[k] = "/"}
        i       == IF slashes = {} THEN 0
                   ELSE CHOOSE k \in slashes : \A j \in slashes : j <= k
        head    == SubSeq(p, 1, i)
    IN  IF head # <<>> /\ \E k \in 1..Len(head) : head[k] # "/"
        THEN rstrip_slash(head)
        ELSE head

(***************************************************************************)
(* Module constants of make_files_tree.py                                  *)
(***************************************************************************)

Lower == {"a","b","c","d","e","f","g","h","i","j","k","l","m",
          "n","o","p","q","r","s","t","u","v","w","x","y","z"}

Digit == {"0","1","2","3","4","5","6","7","8","9"}

\* string.punctuation without '.', followed by string.whitespace (space, \t,
\* \n, \r, \x0b, \x0c).  Two characters have no TLA+ string of their own: the
\* grave accent is written "grave" and \x0b is written "\\v".
ILLEGAL_PATH_CHARS ==
    <<"!","\"","#","$","%","&","'","(",")","*","+",",","-","/",":",";","<","=",">","?","@","[","\\","]","^","_">> \o <<"grave">> \o <<"{","|","}","~"," ">>
        \o <<"\t", "\n", "\r", "\\v", "\f">>

DYNAMIC_PART_MOCK == <<"t","e","l","e","g","r","a","m","-","c","r","a","w","l","e","r">>

OUTPUT_SITES_FOLDER == <<"d","a","t","a","/","w","e","b","/">>

PAGE_API_HASH_TEMPLATE == <<"?","h","a","s","h","=">> \o DYNAMIC_PART_MOCK

PASSPORT_SSID_TEMPLATE == <<"p","a","s","s","p","o","r","t","_","s","s","i","d","=">> \o DYNAMIC_PART_MOCK

NONCE_TEMPLATE == <<"\"","n","o","n","c","e","\"",":","\"">> \o DYNAMIC_PART_MOCK

PROXY_CONFIG_SUB_NET_TEMPLATE == <<"X",".","X",":","8","8","8","8",";">>

SPARKLE_SIG_TEMPLATE == <<";","s","i","g","=">> \o DYNAMIC_PART_MOCK \o <<";">>

SPARKLE_SE_TEMPLATE == <<";","s","e","=">> \o DYNAMIC_PART_MOCK \o <<";">>

\* re.search(TRANSLATIONS_EN_CATEGORY_URL_REGEX, url) is not None, for the
\* pattern /en/[a-z_]+/[a-z_]+/$ on a url without line breaks.
TRANSLATIONS_EN_CATEGORY_URL_REGEX(url) ==
    \E i \in 1..Len(url) :
      /\ StartsWithAt(url, i, <<"/","e","n","/">>)
      /\ \E j \in 1..Len(url) :
        /\ i + 4 < j
        /\ j + 1 < Len(url)
        /\ url[j] = "/"
        /\ url[Len(url)] = "/"
        /\ \A k \in (i + 4)..(j - 1) : url[k] \in Lower \cup {"_"}
        /\ \A k \in (j + 1)..(Len(url) - 1) : url[k] \in Lower \cup {"_"}

(***************************************************************************)
(* The regular expressions of the normalizer.  Each XxxMatch(s, i) is the  *)
(* position just after the match Python's re finds starting at s[i], or 0  *)
(* when the pattern does not match there.                                  *)
(***************************************************************************)

\* The end of the longest run of characters of class C starting at s[i].
RunEnd(s, i, C) ==
    CHOOSE j \in i..(Len(s) + 1) :
        /\ \A k \in i..(j - 1) : s[k] \in C
        /\ j = Len(s) + 1 \/ s[j] \notin C

\* prefix, then [a-z0-9]+ (greedy).
PrefixRunMatch(s, i, prefix) ==
    LET p == i + Len(prefix)
        e == RunEnd(s, p, Lower \cup Digit)
    IN  IF StartsWithAt(s, i, prefix) /\ e > p THEN e ELSE 0

\* prefix, then [a-z0-9]+_[a-z0-9]+_[a-z0-9]+ : '_' is outside the class, so
\* each run is maximal.
PrefixThreePartMatch(s, i, prefix) ==
    LET C  == Lower \cup Digit
        p  == i + Len(prefix)
        e1 == RunEnd(s, p, C)
        e2 == RunEnd(s, e1 + 1, C)
        e3 == RunEnd(s, e2 + 1, C)
    IN  IF /\ StartsWithAt(s, i, prefix)
           /\ e1 > p /\ e1 <= Len(s) /\ s[e1] = "_"
           /\ e2 > e1 + 1 /\ e2 <= Len(s) /\ s[e2] = "_"
           /\ e3 > e2 + 1
        THEN e3 ELSE 0

\* r'<!-- page generated in .+ -->' : '.+' is greedy and does not cross a
\* line break, so the match ends at the last ' -->' of the line.
PAGE_GENERATION_TIME_REGEX(s, i) ==
    LET prefix == <<"<","!","-","-"," ","p","a","g","e"," ","g","e","n","e","r","a","t","e","d"," ","i","n"," ">>
        p      == i + Len(prefix)
        ends   == {j \in (p + 1)..Len(s) :
                      /\ StartsWithAt(s, j, <<" ","-","-",">">>)
                      /\ \A k \in p..(j - 1) : s[k] # "\n"}
    IN  IF StartsWithAt(s, i, prefix) /\ ends # {}
        THEN (CHOOSE j \in ends : \A k \in ends : k <= j) + 4
        ELSE 0

\* r'\?hash=[a-z0-9]+'
PAGE_API_HASH_REGEX(s, i) == PrefixRunMatch(s, i, <<"?","h","a","s","h","=">>)

\* r'passport_ssid=[a-z0-9]+_[a-z0-9]+_[a-z0-9]+'
PASSPORT_SSID_REGEX(s, i) == PrefixThreePartMatch(s, i, <<"p","a","s","s","p","o","r","t","_","s","s","i","d","=">>)

\* r'"nonce":"[a-z0-9]+_[a-z0-9]+_[a-z0-9]+'
NONCE_REGEX(s, i) == PrefixThreePartMatch(s, i, <<"\"","n","o","n","c","e","\"",":","\"">>)

\* r'\d+\.\d+:8888;'
PROXY_CONFIG_SUB_NET_REGEX(s, i) ==
    LET e1 == RunEnd(s, i, Digit)
        e2 == RunEnd(s, e1 + 1, Digit)
    IN  IF /\ e1 > i /\ e1 <= Len(s) /\ s[e1] = "."
           /\ e2 > e1 + 1
           /\ StartsWithAt(s, e2, <<":","8","8","8","8",";">>)
        THEN e2 + 6 ELSE 0

\* prefix, then (.*?); : the lazy group stops at the first ';' of the line.
PrefixLazyMatch(s, i, prefix) ==
    LET p    == i + Len(prefix)
        ends == {j \in p..Len(s) :
                    s[j] = ";" /\ \A k \in p..(j - 1) : s[k] \notin {";", "\n"}}
    IN  IF StartsWithAt(s, i, prefix) /\ ends # {}
        THEN (CHOOSE j \in ends : TRUE) + 1
        ELSE 0

\* r';sig=(.*?);'
SPARKLE_SIG_REGEX(s, i) == PrefixLazyMatch(s, i, <<";","s","i","g","=">>)

\* r';se=(.*?);'
SPARKLE_SE_REGEX(s, i) == PrefixLazyMatch(s, i, <<";","s","e","=">>)

Rules == {"generation", "hash", "ssid", "nonce", "subnet", "sig", "se"}

\* The characters a match of the pattern can begin with: the first character
\* of its literal prefix, or a digit for \d+.
FirstChars(rule) ==
    CASE rule = "generation" -> {"<"}
      [] rule = "hash"       -> {"?"}
      [] rule = "ssid"       -> {"p"}
      [] rule = "nonce"      -> {"\""}
      [] rule = "subnet"     -> Digit
      [] rule = "sig"        -> {";"}
      [] rule = "se"         -> {";"}

MatchEnd(rule, s, i) ==
    CASE rule = "generation" -> PAGE_GENERATION_TIME_REGEX(s, i)
      [] rule = "hash"       -> PAGE_API_HASH_REGEX(s, i)
      [] rule = "ssid"       -> PASSPORT_SSID_REGEX(s, i)
      [] rule = "nonce"      -> NONCE_REGEX(s, i)
      [] rule = "subnet"     -> PROXY_CONFIG_SUB_NET_REGEX(s, i)
      [] rule = "sig"        -> SPARKLE_SIG_REGEX(s, i)
      [] rule = "se"         -> SPARKLE_SE_REGEX(s, i)

\* re.sub(pattern, repl, s) from position i on: leftmost non-overlapping
\* matches, scanned left to right (no pattern here matches the empty string).
RECURSIVE re_sub_from(_, _, _, _)
re_sub_from(rule, repl, s, i) ==
    LET first == FirstChars(rule)
        hits  == {k \in i..Len(s) : s[k] \in first /\ MatchEnd(rule, s, k) > 0}
    IN  once(LAMBDA starts :
                 IF starts = {}
                 THEN SubSeq(s, i, Len(s))
                 ELSE once(LAMBDA k :
                               SubSeq(s, i, k - 1) \o repl
                                   \o once(LAMBDA j : re_sub_from(rule, repl, s, j),
                                           MatchEnd(rule, s, k)),
                           CHOOSE m \in starts : \A n \in starts : m <= n),
             hits)

\* (s is bound once, so that the string is computed once.)
re_sub(rule, repl, s) ==
    once(LAMBDA x : re_sub_from(rule, repl, x, 1), s)

\* The seven substitutions of _crawl, in the order of the code.
Normalize(content) ==
    LET c1 == re_sub("generation", <<>>, content)
        c2 == re_sub("hash", PAGE_API_HASH_TEMPLATE, c1)
        c3 == re_sub("ssid", PASSPORT_SSID_TEMPLATE, c2)
        c4 == re_sub("nonce", NONCE_TEMPLATE, c3)
        c5 == re_sub("subnet", PROXY_CONFIG_SUB_NET_TEMPLATE, c4)
        c6 == re_sub("sig", SPARKLE_SIG_TEMPLATE, c5)
        c7 == re_sub("se", SPARKLE_SE_TEMPLATE, c6)
    IN  c7

(***************************************************************************)
(* Classification and path derivation (_crawl)                             *)
(***************************************************************************)

hashable_only_content_types ==
    {<<"p","n","g">>, <<"j","p","e","g">>, <<"x","-","i","c","o","n">>, <<"g","i","f">>, <<"m","p","4">>, <<"w","e","b","m">>, <<"a","p","p","l","i","c","a","t","i","o","n","/","z","i","p">>}

\* A classifier that compares the whole content type instead of searching it.
is_hashable_only_exact(content_type) == content_type \in hashable_only_content_types

is_hashable_only_content_type(content_type) ==
    \E t \in hashable_only_content_types : str_in(t, content_type)

\* A mislabeled-binary rule that ignores the declared content type.
is_sucking_any_type(url, content_type) == str_in(<<"/","f","i","l","e","/">>, url)

\* '/file/' in url and 'text' in response.content_type
is_sucking_file(url, content_type) ==
    str_in(<<"/","f","i","l","e","/">>, url) /\ str_in(<<"t","e","x","t">>, content_type)

\* [p for p in url.split('/') if p not in ILLEGAL_PATH_CHARS] : 'not in' is
\* the substring test of str, so a segment is dropped exactly when it occurs
\* as a contiguous piece of ILLEGAL_PATH_CHARS (the empty segment included).
url_parts(url) ==
    once(LAMBDA parts : SelectSeq(parts, LAMBDA p : ~ str_in(p, ILLEGAL_PATH_CHARS)),
         str_split(url, "/"))

\* An extension rule with `and` in place of `or`.
ext_and(url, content_type) ==
    LET parts == url_parts(url)
        e1 == IF ~ str_in(<<".">>, parts[Len(parts)]) /\ Len(parts) = 1
              THEN <<".","h","t","m","l">> ELSE <<>>
        e2 == IF is_hashable_only_content_type(content_type)
                 \/ is_sucking_file(url, content_type)
              THEN <<>> ELSE e1
        e3 == IF TRANSLATIONS_EN_CATEGORY_URL_REGEX(url) THEN <<".","j","s","o","n">> ELSE e2
    IN  e3

\* The value of ext when filename is computed.
ext(url, content_type) ==
    LET parts == url_parts(url)
        e1 == IF ~ str_in(<<".">>, parts[Len(parts)]) \/ Len(parts) = 1
              THEN <<".","h","t","m","l">> ELSE <<>>
        e2 == IF is_hashable_only_content_type(content_type)
                 \/ is_sucking_file(url, content_type)
              THEN <<>> ELSE e1
        e3 == IF TRANSLATIONS_EN_CATEGORY_URL_REGEX(url) THEN <<".","j","s","o","n">> ELSE e2
    IN  e3

\* filename = os.path.join(output_dir, *url_parts) + ext
filename(url, content_type, output_dir) ==
    once(LAMBDA parts : path_join(output_dir, parts), url_parts(url))
        \o ext(url, content_type)


\* hashlib.sha256(data).hexdigest(): 64 hexadecimal characters, each one
\* determined by the data and its position.  The digest is kept symbolic:
\* character i of the digest of data d is the value [sha256 |-> d, at |-> i].
get_hash(data) == [i \in 1..64 |-> [sha256 |-> data, at |-> i]]

\* Bytes that cannot start a UTF-8 sequence (0x89 opens a PNG file).
InvalidUtf8 == {"\\x89", "\\xff"}

\* bytes.decode('UTF-8') succeeds (errors='strict').
Decodable(body) == \A i \in 1..Len(body) : body[i] \notin InvalidUtf8

(***************************************************************************)
(* The paginated collector: rows, records, json.dumps                      *)
(***************************************************************************)

\* Python None (no str is the one-element sequence <<"None">>: the elements
\* of a str are single characters).
None == <<"None">>

\* Characters in code-point order, for the comparison of str keys.
CodePoints == <<"0","1","2","3","4","5","6","7","8","9","A","B","C","D","E","F","G","H","I","J","K","L","M","N","O","P","Q","R","S","T","U","V","W","X","Y","Z","_","a","b","c","d","e","f","g","h","i","j","k","l","m","n","o","p","q","r","s","t","u","v","w","x","y","z">>

ord(c) == CHOOSE i \in 1..Len(CodePoints) : CodePoints[i] = c

\* a < b for two str (lexicographic, by code point).
str_lt(a, b) ==
    \E i \in 1..(Len(b)) :
        /\ \A j \in 1..(i - 1) : j <= Len(a) /\ a[j] = b[j]
        /\ \/ Len(a) = i - 1
           \/ Len(a) >= i /\ ord(a[i]) < ord(b[i])

\* sorted(keys)
\* The keys from the greatest down.
RECURSIVE sorted_descending(_)
sorted_descending(keys) ==
    IF keys = {}
    THEN <<>>
    ELSE LET k == CHOOSE x \in keys : \A y \in keys \ {x} : str_lt(y, x)
         IN  <<k>> \o sorted_descending(keys \ {k})

RECURSIVE sorted(_)
sorted(keys) ==
    IF keys = {}
    THEN <<>>
    ELSE LET k == CHOOSE x \in keys : \A y \in keys \ {x} : str_lt(x, y)
         IN  <<k>> \o sorted(keys \ {k})

\* tr_item.find_next(...): the first matching element at or after the row in
\* document order, which may belong to a later row of the fragment; None
\* when the rest of the fragment has none.  field is "photo" or "binding".
find_next(rows, i, field) ==
    LET hits == {j \in i..Len(rows) : rows[j][field] # None}
    IN  IF hits = {} THEN None
        ELSE rows[CHOOSE j \in hits : \A k \in hits : j <= k][field]

\* `b is not None` for a bool b: no bool is None.
bool_is_not_None(b) == b \in BOOLEAN

\* The record stored under tr_key for row i of a fragment (lines 376-399).
tr_record(rows, i) ==
    LET tr_photo       == find_next(rows, i, "photo")
        found          == find_next(rows, i, "binding")
        tr_has_binding == (found # None)                 \* line 386
        tr_values      == rows[i].values
    IN  [url         |-> <<"h","t","t","p","s",":","/","/","t","r","a","n","s","l","a","t","i","o","n","s",".","t","e","l","e","g","r","a","m",".","o","r","g">> \o rows[i].href,
         photo_url   |-> tr_photo,
         has_binding |-> bool_is_not_None(tr_has_binding),    \* line 397
         values      |-> tr_values]

\* content after the rows of one fragment were stored, in document order.
RECURSIVE store_rows(_, _, _)
store_rows(content, rows, i) ==
    IF i > Len(rows)
    THEN content
    ELSE LET key == rows[i].key
             c   == [k \in DOMAIN content \cup {key} |->
                        IF k = key THEN tr_record(rows, i) ELSE content[k]]
         IN  store_rows(c, rows, i + 1)

\* json.dumps of a str (ensure_ascii=False): quoted, with '"', '\' and the
\* line break escaped.
RECURSIVE json_escape(_)
json_escape(s) ==
    IF s = <<>> THEN <<>>
    ELSE (CASE Head(s) = "\"" -> <<"\\","\"">>
            [] Head(s) = "\\" -> <<"\\","\\">>
            [] Head(s) = "\n" -> <<"\\","n">>
            [] OTHER          -> <<Head(s)>>)
             \o json_escape(Tail(s))

json_str(s) == <<"\"">> \o once(LAMBDA x : json_escape(x), s) \o <<"\"">>

NL == <<"\n">>

json_record(r) ==
    <<"{">> \o NL
    \o <<" "," "," "," "," "," "," "," ","\"","u","r","l","\"",":"," ">> \o json_str(r.url) \o <<",">> \o NL
    \o <<" "," "," "," "," "," "," "," ","\"","p","h","o","t","o","_","u","r","l","\"",":"," ">>
         \o (IF r.photo_url = None THEN <<"n","u","l","l">> ELSE json_str(r.photo_url))
         \o <<",">> \o NL
    \o <<" "," "," "," "," "," "," "," ","\"","h","a","s","_","b","i","n","d","i","n","g","\"",":"," ">> \o (IF r.has_binding THEN <<"t","r","u","e">> ELSE <<"f","a","l","s","e">>)
         \o <<",">> \o NL
    \o <<" "," "," "," "," "," "," "," ","\"","v","a","l","u","e","s","\"",":"," ","{">> \o NL
    \o <<" "," "," "," "," "," "," "," "," "," "," "," ","\"","s","i","n","g","u","l","a","r","\"",":"," ">> \o json_str(r.values[1])
         \o (IF Len(r.values) > 1
             THEN <<",">> \o NL \o <<" "," "," "," "," "," "," "," "," "," "," "," ","\"","p","l","u","r","a","l","\"",":"," ">> \o json_str(r.values[2])
             ELSE <<>>)
         \o NL
    \o <<" "," "," "," "," "," "," "," ","}">> \o NL
    \o <<" "," "," "," ","}">>

RECURSIVE json_items(_, _, _)
json_items(content, keys, i) ==
    IF i > Len(keys)
    THEN <<>>
    ELSE <<" "," "," "," ">> \o json_str(keys[i]) \o <<":"," ">> \o json_record(content[keys[i]])
             \o (IF i < Len(keys) THEN <<",">> ELSE <<>>) \o NL
             \o json_items(content, keys, i + 1)

\* json.dumps(dict(sorted(content.items())), indent=4, ensure_ascii=False)
json_dumps(content) ==
    IF DOMAIN content = {}
    THEN <<"{","}">>
    ELSE <<"{">> \o NL
             \o once(LAMBDA keys : json_items(content, keys, 1), sorted(DOMAIN content))
             \o <<"}">>


(***************************************************************************)
(* The upstream: what the site serves                                      *)
(***************************************************************************)

URLS ==
    { <<"e","x","a","m","p","l","e",".","c","o","m","/","a","/","b">>,
      <<"e","x","a","m","p","l","e",".","c","o","m","/","a","/","b","/">>,
      <<"e","x","a","m","p","l","e",".","c","o","m","/","i","m","g",".","p","n","g">>,
      <<"e","x","a","m","p","l","e",".","c","o","m">>,
      <<"t","e","l","e","g","r","a","m",".","o","r","g","/","f","i","l","e","/","8","/","q">>,
      <<"t","r","a","n","s","l","a","t","i","o","n","s",".","t","e","l","e","g","r","a","m",".","o","r","g","/","e","n","/","a","n","d","r","o","i","d","/","l","o","g","i","n","/">>,
      <<"t",".","m","e","/","-","-","/","!","\"","/","a",".","b","/">> }

ContentTypes ==
    { <<"t","e","x","t","/","h","t","m","l">>, <<"a","p","p","l","i","c","a","t","i","o","n","/","j","s","o","n">>, <<"a","p","p","l","i","c","a","t","i","o","n","/","o","c","t","e","t","-","s","t","r","e","a","m">>,
      <<"i","m","a","g","e","/","p","n","g">>, <<"i","m","a","g","e","/","j","p","e","g">>, <<"i","m","a","g","e","/","x","-","i","c","o","n">>, <<"i","m","a","g","e","/","g","i","f">>,
      <<"v","i","d","e","o","/","m","p","4">>, <<"v","i","d","e","o","/","w","e","b","m">>, <<"a","p","p","l","i","c","a","t","i","o","n","/","z","i","p">> }

Bodies ==
    { <<"<","p",">","?","h","a","s","h","=","a","b","1","2","<","/","p",">","<","!","-","-"," ","p","a","g","e"," ","g","e","n","e","r","a","t","e","d"," ","i","n"," ","0",".","0","1","s"," ","-","-",">">>,
      <<"o","k">>,
      <<"\\x89">> \o <<"P","N","G">> }

\* What the site serves for a GET: a status, a declared content type, a body.
Responses ==
    [status : {200}, content_type : ContentTypes, body : Bodies]
        \cup [status : {304}, content_type : {<<"t","e","x","t","/","h","t","m","l">>, <<"i","m","a","g","e","/","p","n","g">>}, body : Bodies]
        \cup [status : {404, 302}, content_type : {<<"t","e","x","t","/","h","t","m","l">>}, body : {<<"o","k">>}]

\* The fragments (more_html) the translations endpoint serves at offsets
\* 0, 200, 400, ...: each a sequence of rows; past the last one, the fragment
\* is empty.
AllPages ==
    << << [key |-> <<"L","o","g","i","n">>, href |-> <<"/","e","n","/","a","/","L","o","g","i","n">>, photo |-> None,
           binding |-> None, values |-> << <<"L","o","g"," ","?","h","a","s","h","=","a","b","1","2"," ","i","n">> >>],
          [key |-> <<"C","a","n","c","e","l">>, href |-> <<"/","e","n","/","a","/","C","a","n","c","e","l">>, photo |-> <<"c",".","p","n","g">>,
           binding |-> <<"s","p","a","n">>, values |-> << <<"C","a","n","c","e","l">>, <<"C","a","n","c","e","l","s">> >>] >>,
       << [key |-> <<"B","a","c","k">>, href |-> <<"/","e","n","/","a","/","B","a","c","k">>, photo |-> None,
           binding |-> None, values |-> << <<"B","a","c","k">> >>] >>,
       << [key |-> <<"L","o","g","i","n">>, href |-> <<"/","e","n","/","a","/","L","o","g","i","n","2">>, photo |-> None,
           binding |-> None, values |-> << <<"S","i","g","n"," ","i","n">> >>] >> >>

(***************************************************************************)
(* Bounds                                                                  *)
(***************************************************************************)

\* Transient failures (5xx, transport errors, non-200 POST answers) injected
\* in one run of a batch.
MaxFail == 2

\* Non-empty pages the translations endpoint serves before the empty one.
MaxPages == 2

(***************************************************************************)
(* State                                                                   *)
(***************************************************************************)

VARIABLES
    input,      \* the lines of the input file (urls), in order
    upstream,   \* url -> the response the site serves for a GET of it
    npages,     \* the number of non-empty pages the translations endpoint serves
    batch,      \* "running", "complete" (gather returned) or "raised"
    pc,         \* task -> the await it is suspended at
    status,     \* task -> response.status of the GET of the current attempt
    offset,     \* task -> the offset of _get_page
    content,    \* task -> the dict `content` of the collector
    files,      \* the output tree: file name -> content
    dirs,       \* the directories os.makedirs created
    gets,       \* task -> GET requests issued
    hist,       \* task -> the outcome of each finished attempt of _crawl
    posted,     \* task -> the POSTs issued: offset and outcome
    wrote,      \* task -> the writes done: file name and data
    fails,      \* transient failures injected in this run
    run,        \* 1 or 2: the run of the pipeline
    prev        \* the files as the previous run left them

vars == <<input, upstream, npages, batch, pc, status, offset, content, files, dirs,
          gets, hist, posted, wrote, fails, run, prev>>

Range(f) == {f[x] : x \in DOMAIN f}

Last(s) == s[Len(s)]

\* A scheduler that skips the set: one task per line of the input.
one_task_per_line(lines) == DOMAIN lines

\* tracked_urls = set(lines): one task per distinct line; a task is named by
\* the first line that holds its url.
tracked_urls(lines) ==
    {i \in DOMAIN lines : \A j \in 1..(i - 1) : lines[j] # lines[i]}

Tasks == tracked_urls(input)

url_of(t) == input[t]

TransportErrors == {"ServerDisconnectedError", "TimeoutError", "ClientConnectorError"}

\* A crawl whose except clause leaves RetryError out.
crawl_without_RetryError(exc) == exc \in TransportErrors

\* A crawl whose except clause names OSError too.
crawl_catches_OSError(exc) == exc \in {"RetryError", "OSError"} \cup TransportErrors

\* except (RetryError, ServerDisconnectedError, TimeoutError, ClientConnectorError)
crawl_catches(exc) == exc \in {"RetryError"} \cup TransportErrors

\* A _get_page without its except clause.
get_page_catches_nothing(exc) == FALSE

\* except (ServerDisconnectedError, TimeoutError, ClientConnectorError) of _get_page
get_page_catches(exc) == exc \in TransportErrors

\* A test that takes 500 alone for a server error.
is_500_only(st) == st = 500

\* if 499 < response.status < 600: raise RetryError
is_5xx(st) == 499 < st /\ st < 600

\* response.status not in {200, 304} is false
is_fetched(st) == st \in {200, 304}

\* if response.status != 302: the body is read for the debug log
skip_reads_body(st) == st # 302

\* The statuses a site in trouble answers with for a while.
TransientStatuses == {500, 503}

\* The classification of the design (section 4.1) of a response status, for
\* the history of outcomes.
Outcome(st) ==
    IF st \in 500..599 THEN "Retryable"
    ELSE IF st \in {200, 304} THEN "Success"
    ELSE "Skip"

is_hashable_only(t) ==
    is_hashable_only_content_type(upstream[url_of(t)].content_type)

\* if is_sucking_file or is_hashable_only: the digest is written
stores_hash(t) ==
    \/ is_sucking_file(url_of(t), upstream[url_of(t)].content_type)
    \/ is_hashable_only(t)

\* The second test of the pattern (line 606), on the text route.
collects_pages(t) == TRANSLATIONS_EN_CATEGORY_URL_REGEX(url_of(t))

task_filename(t) ==
    filename(url_of(t), upstream[url_of(t)].content_type, OUTPUT_SITES_FOLDER)

\* The page size of the collector: new_offset = offset + 200.
PageSize == 200

\* The fragment served at an offset.
more_html(off) ==
    IF off % PageSize = 0 /\ off \div PageSize < npages
    THEN AllPages[(off \div PageSize) + 1]
    ELSE <<>>

\* A collector that moves on after a failed request.
resend_next_page(off) == off + PageSize

\* new_offset after a response of _get_page (None is 0 here: `new_offset and
\* await _get_page(new_offset)` tests the truth of the number).
resend_offset(off) == off

\* A collector that skips a page: offset + 400.
advance_two_pages(off) == off + 2 * PageSize

advance_offset(off) == off + PageSize

\* `new_offset and ...`: the recursion happens when new_offset is truthy.
recurses(new_offset) == new_offset # 0

\* A _crawl that writes the JSON of the collector as it is.
written_data_raw_json(t) ==
    IF stores_hash(t)
    THEN get_hash(upstream[url_of(t)].body)
    ELSE IF collects_pages(t)
    THEN json_dumps(content[t])
    ELSE Normalize(upstream[url_of(t)].body)

\* The data handed to f.write.
written_data(t) ==
    IF stores_hash(t)
    THEN get_hash(upstream[url_of(t)].body)
    ELSE once(LAMBDA text : Normalize(text),
              IF collects_pages(t)
              THEN json_dumps(content[t])
              ELSE upstream[url_of(t)].body)

\* A write of data at position 0 of a file that holds old.
Overlay(old, data) == data \o SubSeq(old, Len(data) + 1, Len(old))

EmptyDict == [k \in {} |-> None]

(***************************************************************************)
(* Initial states                                                          *)
(***************************************************************************)

InitServed(lines, served) ==
    /\ input = lines
    /\ upstream \in [Range(lines) -> served]
    /\ npages \in (IF \E u \in Range(lines) : TRANSLATIONS_EN_CATEGORY_URL_REGEX(u)
                   THEN 0..MaxPages ELSE {0})
    /\ batch = "running"
    /\ pc = [t \in tracked_urls(lines) |-> "get"]
    /\ status = [t \in tracked_urls(lines) |-> 0]
    /\ offset = [t \in tracked_urls(lines) |-> 0]
    /\ content = [t \in tracked_urls(lines) |-> EmptyDict]
    /\ files = [f \in {} |-> <<>>]
    /\ dirs = {}
    /\ gets = [t \in tracked_urls(lines) |-> 0]
    /\ hist = [t \in tracked_urls(lines) |-> <<>>]
    /\ posted = [t \in tracked_urls(lines) |-> <<>>]
    /\ wrote = [t \in tracked_urls(lines) |-> <<>>]
    /\ fails = 0
    /\ run = 1
    /\ prev = [f \in {} |-> <<>>]

InitRun(lines) == InitServed(lines, Responses)

\* An input file of one line, for every url.
Init == \E u \in URLS : InitRun(<<u>>)

(***************************************************************************)
(* crawl and _crawl                                                        *)
(***************************************************************************)

\* An exception leaves _crawl: crawl catches it and loops, or it propagates
\* out of asyncio.gather.
Raise(t, exc, outcome) ==
    /\ hist' = [hist EXCEPT ![t] = Append(@, outcome)]
    /\ IF crawl_catches(exc)
       THEN pc' = [pc EXCEPT ![t] = "get"] /\ batch' = batch
       ELSE pc' = [pc EXCEPT ![t] = "raised"] /\ batch' = "raised"

\* _crawl returns: crawl breaks out of its loop.
Return(t, outcome) ==
    /\ hist' = [hist EXCEPT ![t] = Append(@, outcome)]
    /\ pc' = [pc EXCEPT ![t] = "done"]
    /\ batch' = batch

\* session.get raises a transport error.
GetRaises(t, exc) ==
    /\ batch = "running" /\ pc[t] = "get" /\ fails < MaxFail
    /\ gets' = [gets EXCEPT ![t] = @ + 1]
    /\ fails' = fails + 1
    /\ Raise(t, exc, "Retryable")
    /\ UNCHANGED <<input, upstream, npages, status, offset, content, files,
                   dirs, posted, wrote, run, prev>>

\* The GET is answered with status st: what the site serves for the url, or,
\* for a while, a 5xx.  _crawl runs up to its next await: RetryError for a
\* 5xx; a return for 302; the body read for the log for another status that
\* is not 200 or 304; else the path is derived, the directory made, and the
\* body awaited.
GetResponds(t, st) ==
    /\ batch = "running" /\ pc[t] = "get"
    /\ IF st = upstream[url_of(t)].status
       THEN fails' = fails
       ELSE st \in TransientStatuses /\ fails < MaxFail /\ fails' = fails + 1
    /\ gets' = [gets EXCEPT ![t] = @ + 1]
    /\ status' = [status EXCEPT ![t] = st]
    /\ IF is_5xx(st)
       THEN Raise(t, "RetryError", Outcome(st)) /\ dirs' = dirs
       ELSE IF ~ is_fetched(st)
       THEN /\ IF skip_reads_body(st)
               THEN pc' = [pc EXCEPT ![t] = "skip_text"] /\ UNCHANGED <<hist, batch>>
               ELSE Return(t, Outcome(st))
            /\ dirs' = dirs
       ELSE /\ dirs' = dirs \cup {path_dirname(name) : name \in {task_filename(t)}}
            /\ pc' = [pc EXCEPT ![t] = IF stores_hash(t) THEN "read" ELSE "text"]
            /\ UNCHANGED <<hist, batch>>
    /\ UNCHANGED <<input, upstream, npages, offset, content, files,
                   posted, wrote, run, prev>>

\* response.text() / response.read() raises a transport error.
BodyRaises(t, exc) ==
    /\ batch = "running" /\ pc[t] \in {"skip_text", "read", "text"}
    /\ fails < MaxFail
    /\ fails' = fails + 1
    /\ Raise(t, exc, "Retryable")
    /\ UNCHANGED <<input, upstream, npages, status, offset, content, files,
                   dirs, gets, posted, wrote, run, prev>>

\* The body of a skipped response was read for the log: _crawl returns.
SkipText(t) ==
    /\ batch = "running" /\ pc[t] = "skip_text"
    /\ Return(t, Outcome(status[t]))
    /\ UNCHANGED <<input, upstream, npages, status, offset, content, files,
                   dirs, gets, posted, wrote, fails, run, prev>>

\* content = await response.read()
ReadBody(t) ==
    /\ batch = "running" /\ pc[t] = "read"
    /\ pc' = [pc EXCEPT ![t] = "open"]
    /\ UNCHANGED <<input, upstream, npages, batch, status, offset, content,
                   files, dirs, gets, hist, posted, wrote, fails, run, prev>>

\* content = await response.text(encoding='UTF-8'); a body that is not UTF-8
\* raises UnicodeDecodeError.  A translations category url enters the
\* collector: content = dict(), _get_page(0).
TextBody(t) ==
    /\ batch = "running" /\ pc[t] = "text"
    /\ IF ~ Decodable(upstream[url_of(t)].body)
       THEN Raise(t, "UnicodeDecodeError", "Fatal") /\ UNCHANGED <<offset, content>>
       ELSE IF collects_pages(t)
       THEN /\ pc' = [pc EXCEPT ![t] = "post"]
            /\ offset' = [offset EXCEPT ![t] = 0]
            /\ content' = [content EXCEPT ![t] = EmptyDict]
            /\ UNCHANGED <<hist, batch>>
       ELSE /\ pc' = [pc EXCEPT ![t] = "open"]
            /\ UNCHANGED <<hist, batch, offset, content>>
    /\ UNCHANGED <<input, upstream, npages, status, files, dirs,
                   gets, posted, wrote, fails, run, prev>>

(***************************************************************************)
(* collect_translations_paginated_content._get_page                        *)
(***************************************************************************)

\* What follows a POST of _get_page(offset) whose new_offset is new: the
\* recursion when new is truthy, else _get_page returns and so does the
\* collector (the recursion is a tail call: every caller returns with it).
Continue(t, new) ==
    IF recurses(new)
    THEN offset' = [offset EXCEPT ![t] = new] /\ pc' = pc
    ELSE offset' = offset /\ pc' = [pc EXCEPT ![t] = "open"]

\* session.post or response.json raises a transport error: the handler of
\* _get_page calls _get_page(offset) again.
PostRaises(t, exc) ==
    /\ batch = "running" /\ pc[t] = "post" /\ fails < MaxFail
    /\ fails' = fails + 1
    /\ posted' = [posted EXCEPT ![t] =
                     Append(@, [offset |-> offset[t], outcome |-> "transport"])]
    /\ IF get_page_catches(exc)
       THEN UNCHANGED <<pc, hist, batch>>
       ELSE Raise(t, exc, "Retryable")
    /\ UNCHANGED <<input, upstream, npages, status, offset, content, files,
                   dirs, gets, wrote, run, prev>>

\* The POST is answered with a status that is not 200 (a 5xx or another
\* one): new_offset = offset.  A second run is a run against the same
\* upstream, so there only the transient statuses differ from 200.
PostNot200(t, st) ==
    /\ batch = "running" /\ pc[t] = "post" /\ fails < MaxFail
    /\ st \in TransientStatuses \cup {404}
    /\ st \notin TransientStatuses => run = 1
    /\ fails' = fails + 1
    /\ posted' = [posted EXCEPT ![t] =
                     Append(@, [offset |-> offset[t], outcome |-> Outcome(st)])]
    /\ Continue(t, resend_offset(offset[t]))
    /\ UNCHANGED <<input, upstream, npages, batch, status, content, files,
                   dirs, gets, hist, wrote, run, prev>>

\* The POST is answered with 200 and a JSON envelope: a non-empty more_html
\* is parsed, its rows stored, and new_offset = offset + 200; on an empty
\* one new_offset stays None.
PostPage(t) ==
    /\ batch = "running" /\ pc[t] = "post"
    /\ LET rows == more_html(offset[t])
       IN  /\ posted' = [posted EXCEPT ![t] =
                  Append(@, [offset |-> offset[t],
                             outcome |-> IF rows # <<>> THEN "page" ELSE "empty"])]
           /\ IF rows # <<>>
              THEN /\ content' = [content EXCEPT ![t] = store_rows(@, rows, 1)]
                   /\ Continue(t, advance_offset(offset[t]))
              ELSE /\ content' = content
                   /\ Continue(t, 0)
    /\ UNCHANGED <<input, upstream, npages, batch, status, files, dirs,
                   gets, hist, wrote, fails, run, prev>>

(***************************************************************************)
(* The write                                                               *)
(***************************************************************************)

\* aiofiles.open(filename, 'w'): the file is created or truncated.
OpenFile(t) ==
    /\ batch = "running" /\ pc[t] = "open"
    /\ LET name == task_filename(t)
       IN  files' = [f \in DOMAIN files \cup {name} |->
                        IF f = name THEN <<>> ELSE files[f]]
    /\ pc' = [pc EXCEPT ![t] = "write"]
    /\ UNCHANGED <<input, upstream, npages, batch, status, offset, content,
                   dirs, gets, hist, posted, wrote, fails, run, prev>>

\* aiofiles.open raises OSError (disk full, permission denied).
OpenRaises(t) ==
    /\ batch = "running" /\ pc[t] = "open"
    /\ Raise(t, "OSError", "Fatal")
    /\ UNCHANGED <<input, upstream, npages, status, offset, content, files,
                   dirs, gets, posted, wrote, fails, run, prev>>

\* f.write(...) and the close of the file: the data lands at position 0 of
\* the file as it is then; _crawl returns.
WriteFile(t) ==
    /\ batch = "running" /\ pc[t] = "write"
    /\ LET name == task_filename(t)
           data == written_data(t)
       IN  /\ files' = [files EXCEPT ![name] = Overlay(@, data)]
           /\ wrote' = [wrote EXCEPT ![t] = Append(@, [name |-> name, data |-> data])]
    /\ Return(t, Outcome(status[t]))
    /\ UNCHANGED <<input, upstream, npages, status, offset, content,
                   dirs, gets, posted, fails, run, prev>>

(***************************************************************************)
(* _crawl_web                                                              *)
(***************************************************************************)

\* A gather that returns with the first task that is done.
gather_first_completed == \E t \in Tasks : pc[t] = "done"

\* await asyncio.gather(...) returns when every crawl(url) has returned.
gather_returns == \A t \in Tasks : pc[t] = "done"

\* asyncio.gather returns: every crawl(url) returned.
BatchComplete ==
    /\ batch = "running"
    /\ gather_returns
    /\ batch' = "complete"
    /\ UNCHANGED <<input, upstream, npages, pc, status, offset, content, files,
                   dirs, gets, hist, posted, wrote, fails, run, prev>>

Next ==
    \/ \E t \in Tasks, exc \in TransportErrors : GetRaises(t, exc)
    \/ \E t \in Tasks, st \in {200, 304, 302, 404} \cup TransientStatuses :
           GetResponds(t, st)
    \/ \E t \in Tasks, exc \in TransportErrors : BodyRaises(t, exc)
    \/ \E t \in Tasks : SkipText(t)
    \/ \E t \in Tasks : ReadBody(t)
    \/ \E t \in Tasks : TextBody(t)
    \/ \E t \in Tasks, exc \in TransportErrors : PostRaises(t, exc)
    \/ \E t \in Tasks, st \in TransientStatuses \cup {404} : PostNot200(t, st)
    \/ \E t \in Tasks : PostPage(t)
    \/ \E t \in Tasks : OpenFile(t)
    \/ \E t \in Tasks : OpenRaises(t)
    \/ \E t \in Tasks : WriteFile(t)
    \/ BatchComplete

Spec == Init /\ [][Next]_vars


(***************************************************************************)
(* Batches of several urls, and two runs of one batch                      *)
(***************************************************************************)

\* Input files of several lines: two urls that differ in a trailing slash,
\* two unrelated urls, a url repeated three times, a translations category
\* listed twice.
BatchInputs ==
    { << <<"e","x","a","m","p","l","e",".","c","o","m","/","a","/","b">>, <<"e","x","a","m","p","l","e",".","c","o","m","/","a","/","b","/">> >>,
      << <<"e","x","a","m","p","l","e",".","c","o","m","/","a","/","b">>, <<"e","x","a","m","p","l","e",".","c","o","m","/","i","m","g",".","p","n","g">> >>,
      << <<"e","x","a","m","p","l","e",".","c","o","m","/","a","/","b">>, <<"e","x","a","m","p","l","e",".","c","o","m","/","a","/","b">>, <<"e","x","a","m","p","l","e",".","c","o","m","/","a","/","b">> >>,
      << <<"t","r","a","n","s","l","a","t","i","o","n","s",".","t","e","l","e","g","r","a","m",".","o","r","g","/","e","n","/","a","n","d","r","o","i","d","/","l","o","g","i","n","/">>,
         <<"t","r","a","n","s","l","a","t","i","o","n","s",".","t","e","l","e","g","r","a","m",".","o","r","g","/","e","n","/","a","n","d","r","o","i","d","/","l","o","g","i","n","/">> >> }

\* What the site serves in the batches.
BatchResponses ==
    { [status |-> 200, content_type |-> <<"t","e","x","t","/","h","t","m","l">>, body |-> <<"o","k">>],
      [status |-> 200, content_type |-> <<"t","e","x","t","/","h","t","m","l">>,
       body |-> <<"<","p",">","?","h","a","s","h","=","a","b","1","2","<","/","p",">","<","!","-","-"," ","p","a","g","e"," ","g","e","n","e","r","a","t","e","d"," ","i","n"," ","0",".","0","1","s"," ","-","-",">">>],
      [status |-> 200, content_type |-> <<"i","m","a","g","e","/","p","n","g">>, body |-> <<"\\x89">> \o <<"P","N","G">>],
      [status |-> 404, content_type |-> <<"t","e","x","t","/","h","t","m","l">>, body |-> <<"o","k">>] }

InitBatch ==
    /\ \E lines \in BatchInputs : InitRun(lines)
    /\ \A u \in Range(input) : upstream[u] \in BatchResponses

SpecBatch == InitBatch /\ [][Next]_vars

\* The names a task can have under FairInputs: the lines of its input files.
TaskIds == 1..2

\* A step of the coroutine of task t when the awaited operation succeeds:
\* the event loop resumes a coroutine whose awaited result is ready.
crawl_step(t) ==
    /\ t \in Tasks
    /\ \/ GetResponds(t, upstream[url_of(t)].status)
       \/ SkipText(t)
       \/ ReadBody(t)
       \/ TextBody(t)
       \/ PostPage(t)
       \/ OpenFile(t)
       \/ WriteFile(t)

\* Two unrelated urls, or a translations category.
FairInputs ==
    { << <<"e","x","a","m","p","l","e",".","c","o","m","/","a","/","b">>, <<"e","x","a","m","p","l","e",".","c","o","m","/","i","m","g",".","p","n","g">> >>,
      << <<"t","r","a","n","s","l","a","t","i","o","n","s",".","t","e","l","e","g","r","a","m",".","o","r","g","/","e","n","/","a","n","d","r","o","i","d","/","l","o","g","i","n","/">> >> }

\* What the site serves there: a page, an image, or nothing.
FairResponses ==
    { [status |-> 200, content_type |-> <<"t","e","x","t","/","h","t","m","l">>, body |-> <<"o","k">>],
      [status |-> 200, content_type |-> <<"i","m","a","g","e","/","p","n","g">>, body |-> <<"\\x89">> \o <<"P","N","G">>],
      [status |-> 404, content_type |-> <<"t","e","x","t","/","h","t","m","l">>, body |-> <<"o","k">>] }

InitFair ==
    /\ \E lines \in FairInputs : InitRun(lines)
    /\ \A u \in Range(input) : upstream[u] \in FairResponses

\* The batches under a fair event loop: every task whose awaited operation
\* can succeed is resumed, and so is the caller of gather.  The failures
\* are bounded (MaxFail): the upstream recovers.
SpecFair ==
    /\ InitFair /\ [][Next]_vars
    /\ \A t \in TaskIds : WF_vars(crawl_step(t))
    /\ WF_vars(BatchComplete)

\* The pipeline is run again on the same input against the same upstream
\* (one whose translations endpoint answered the POSTs of the first run, but
\* for transient failures): the files of the first run stay, everything else
\* starts afresh.
NextRun ==
    /\ batch = "complete" /\ run = 1
    /\ \A t \in Tasks : \A i \in 1..Len(posted[t]) : posted[t][i].outcome # "Skip"
    /\ run' = 2
    /\ prev' = files
    /\ batch' = "running"
    /\ pc' = [t \in Tasks |-> "get"]
    /\ status' = [t \in Tasks |-> 0]
    /\ offset' = [t \in Tasks |-> 0]
    /\ content' = [t \in Tasks |-> EmptyDict]
    /\ gets' = [t \in Tasks |-> 0]
    /\ hist' = [t \in Tasks |-> <<>>]
    /\ posted' = [t \in Tasks |-> <<>>]
    /\ wrote' = [t \in Tasks |-> <<>>]
    /\ fails' = 0
    /\ UNCHANGED <<input, upstream, npages, files, dirs>>

NextTwice == Next \/ NextRun

InitTwice ==
    /\ Init
    /\ \A u \in Range(input) : upstream[u] \in BatchResponses

SpecTwice == InitTwice /\ [][NextTwice]_vars

(***************************************************************************)
(* Text bodies that hold the fragments the normalizer rewrites             *)
(***************************************************************************)

\* The rules of the normalizer, in the order of lines 609-615.
Kinds == <<"generation", "hash", "ssid", "nonce", "subnet", "sig", "se">>

\* A fragment of each kind as a site serves it: its text, and the dynamic
\* value in it.
Fragment(kind) ==
    CASE kind = "generation" ->
             [text |-> <<"<","!","-","-"," ","p","a","g","e"," ","g","e","n","e","r","a","t","e","d"," ","i","n"," ","0",".","0","1","s"," ","-","-",">">>, dyn |-> <<"0",".","0","1","s">>]
      [] kind = "hash"   -> [text |-> <<"?","h","a","s","h","=","a","b","1","2">>, dyn |-> <<"a","b","1","2">>]
      [] kind = "ssid"   -> [text |-> <<"p","a","s","s","p","o","r","t","_","s","s","i","d","=","a","1","_","b","2","_","c","3">>, dyn |-> <<"a","1","_","b","2","_","c","3">>]
      [] kind = "nonce"  -> [text |-> <<"\"","n","o","n","c","e","\"",":","\"","d","4","_","e","5","_","f","6">>, dyn |-> <<"d","4","_","e","5","_","f","6">>]
      [] kind = "subnet" -> [text |-> <<"1","0",".","2","0",":","8","8","8","8",";">>, dyn |-> <<"1","0",".","2","0">>]
      [] kind = "sig"    -> [text |-> <<";","s","i","g","=","Q","W","x","h",";">>, dyn |-> <<"Q","W","x","h">>]
      [] kind = "se"     -> [text |-> <<";","s","e","=","1","6","9","9",";">>, dyn |-> <<"1","6","9","9">>]

\* The replacement string of each rule (the second argument of re.sub).
Placeholder(kind) ==
    CASE kind = "generation" -> <<>>
      [] kind = "hash"   -> PAGE_API_HASH_TEMPLATE
      [] kind = "ssid"   -> PASSPORT_SSID_TEMPLATE
      [] kind = "nonce"  -> NONCE_TEMPLATE
      [] kind = "subnet" -> PROXY_CONFIG_SUB_NET_TEMPLATE
      [] kind = "sig"    -> SPARKLE_SIG_TEMPLATE
      [] kind = "se"     -> SPARKLE_SE_TEMPLATE

\* What stands between two fragments of a body.
Separators == { <<" ">>, <<"\n">>, <<"<","/","p",">","<","p",">">> }

\* A body as its segments: <<"<","p",">">>, then the seven fragments, the n-th kind
\* first, each followed by the separator.
Doc(n, sep) ==
    [j \in 1..15 |->
        IF j = 1 THEN [kind |-> "lit", text |-> <<"<","p",">">>]
        ELSE IF j % 2 = 1 THEN [kind |-> "lit", text |-> sep]
        ELSE LET kind == Kinds[((j \div 2 + n - 2) % 7) + 1]
             IN  [kind |-> kind, text |-> Fragment(kind).text]]

\* A body whose generation comment is followed, on its line, by markup and
\* another comment.
CommentThenMarkup ==
    << [kind |-> "generation", text |-> Fragment("generation").text],
       [kind |-> "lit", text |-> <<"<","b",">","x","<","/","b",">","<","!","-","-"," ","e","n","d"," ","-","-",">">>] >>

Docs == {Doc(n, sep) : n \in 1..7, sep \in Separators} \cup {CommentThenMarkup}

\* The text of a body, and the text the design expects after normalization:
\* every fragment replaced by its placeholder, the rest unchanged.
RECURSIVE Render(_)
Render(doc) ==
    IF doc = <<>> THEN <<>> ELSE Head(doc).text \o Render(Tail(doc))

RECURSIVE Expected(_)
Expected(doc) ==
    IF doc = <<>> THEN <<>>
    ELSE (IF Head(doc).kind = "lit" THEN Head(doc).text ELSE Placeholder(Head(doc).kind))
             \o Expected(Tail(doc))

\* Bodies whose fragments touch: a signature directly followed by an expiry
\* (they share the ';'), and a signature whose value holds a hash fragment.
Adjacent == { <<";","s","i","g","=","Q","W","x","h",";","s","e","=","1","6","9","9",";">>, <<";","s","i","g","=","Q","W","x","h","?","h","a","s","h","=","a","b","1","2",";">> }

\* What the site serves in the runs on such bodies: one of them as a page,
\* an image, or nothing.
DocResponses ==
    {[status |-> 200, content_type |-> <<"t","e","x","t","/","h","t","m","l">>, body |-> Render(doc)] : doc \in Docs}
        \cup {[status |-> 200, content_type |-> <<"t","e","x","t","/","h","t","m","l">>, body |-> b] : b \in Adjacent}
        \cup FairResponses

\* One url, a page or a translations category, served one of DocResponses.
InitDocs ==
    /\ \E lines \in { << <<"e","x","a","m","p","l","e",".","c","o","m","/","a","/","b">> >>,
                        << <<"t","r","a","n","s","l","a","t","i","o","n","s",".","t","e","l","e","g","r","a","m",".","o","r","g","/","e","n","/","a","n","d","r","o","i","d","/","l","o","g","i","n","/">> >> } :
           InitServed(lines, DocResponses)

SpecDocs == InitDocs /\ [][Next]_vars

(***************************************************************************)
(* Properties                                                              *)
(***************************************************************************)

Retryable(h, i) == h[i] = "Retryable"

\* C1 (retry convergence).  While the last finished attempt of a url ended
\* in a Retryable outcome the url is being attempted again, and as soon as
\* an attempt ends in Success or Skip the task is Done, having issued one
\* GET per attempt: all the attempts before the last one were Retryable,
\* and the last one is the one acted upon (it alone wrote the file, and
\* only when it was a Success).
C1_RetryConvergence ==
    \A t \in Tasks :
        LET h == hist[t]
        IN  /\ (h # <<>> /\ Last(h) = "Retryable") => pc[t] # "done" /\ pc[t] # "raised"
            /\ pc[t] = "done" <=> (h # <<>> /\ Last(h) \in {"Success", "Skip"})
            /\ pc[t] = "done" =>
                  /\ gets[t] = Len(h)
                  /\ \A i \in 1..(Len(h) - 1) : Retryable(h, i)
                  /\ Last(h) = Outcome(status[t])
                  /\ Len(wrote[t]) = (IF Last(h) = "Success" THEN 1 ELSE 0)

\* 503, 503, 200: three attempts, three GETs, Done.
C1_Witness ==
    \E t \in Tasks :
        /\ hist[t] = <<"Retryable", "Retryable", "Success">>
        /\ gets[t] = 3 /\ status[t] = 200 /\ pc[t] = "done"

\* The design's Skip statuses.
IsSkipStatus(st) == st # 0 /\ st \notin {200, 304} /\ st \notin 500..599

\* C2 (skip is terminal), as claimed.  Once the GET of a url was answered
\* with a status that is not 200, not 304 and not 5xx, the task only
\* finishes that attempt and is Done (it never issues another GET), and
\* the attempt creates no file and no directory.
C2_SkipIsTerminal ==
    \A t \in Tasks :
        IsSkipStatus(status[t]) =>
            /\ pc[t] \in {"skip_text", "done"}
            /\ wrote[t] = <<>> /\ dirs = {} /\ DOMAIN files = {}

\* The outcome of a POST is Retryable: a 5xx status or a transport error.
RetryablePost(p) == p.outcome \in {"Retryable", "transport"}

\* C3 (same-offset retry), as claimed.  After a POST for offset o with a
\* Retryable outcome the next POST is for o again, whatever o is: the
\* collector is still posting, at the same offset.
C3_SameOffsetRetry ==
    \A t \in Tasks :
        \A i \in 1..Len(posted[t]) :
            RetryablePost(posted[t][i]) =>
                IF i < Len(posted[t])
                THEN posted[t][i + 1].offset = posted[t][i].offset
                ELSE pc[t] = "post" /\ offset[t] = posted[t][i].offset

\* The collector of task t ran and has returned.
Collected(t) ==
    /\ posted[t] # <<>>
    /\ pc[t] \in {"open", "write", "done"}

\* The keys of the rows of the first n pages.
PageKeys(n) ==
    UNION {{AllPages[p][r].key : r \in 1..Len(AllPages[p])} : p \in 1..n}

\* C4 (pagination termination).  When n non-empty pages are served and then
\* an empty one, and no POST failed, the collector has issued exactly n + 1
\* POSTs, at offsets 0, 200, ..., 200 n, and holds exactly the keys of the
\* first n pages.
C4_PaginationTerminates ==
    \A t \in Tasks :
        (Collected(t) /\ \A i \in 1..Len(posted[t]) :
                             posted[t][i].outcome \in {"page", "empty"}) =>
            /\ Len(posted[t]) = npages + 1
            /\ \A i \in 1..Len(posted[t]) : posted[t][i].offset = 200 * (i - 1)
            /\ DOMAIN content[t] = PageKeys(npages)

\* Two non-empty pages, then the empty one: three requests.
C4_Witness ==
    \E t \in Tasks :
        /\ Collected(t) /\ npages = 2 /\ pc[t] = "done"
        /\ posted[t] = << [offset |-> 0, outcome |-> "page"],
                          [offset |-> 200, outcome |-> "page"],
                          [offset |-> 400, outcome |-> "empty"] >>
        /\ DOMAIN content[t] = {<<"L","o","g","i","n">>, <<"C","a","n","c","e","l">>, <<"B","a","c","k">>}

\* The binary/opaque content types the claim lists.
BinaryTypes ==
    { <<"i","m","a","g","e","/","p","n","g">>, <<"i","m","a","g","e","/","j","p","e","g">>, <<"i","m","a","g","e","/","x","-","i","c","o","n">>, <<"i","m","a","g","e","/","g","i","f">>,
      <<"v","i","d","e","o","/","m","p","4">>, <<"v","i","d","e","o","/","w","e","b","m">>, <<"a","p","p","l","i","c","a","t","i","o","n","/","z","i","p">> }

\* C5 (hash-only vs text storage).  Whatever is written for a response of a
\* binary/opaque content type is the 64-character digest of the raw body and
\* not the body; a text/html response with status 200 for a url of no
\* special shape is written as its normalized text.
C5_HashOrText ==
    \A t \in Tasks :
        \A i \in 1..Len(wrote[t]) :
            LET r == upstream[url_of(t)]
                d == wrote[t][i].data
            IN  /\ r.content_type \in BinaryTypes =>
                      /\ Len(d) = 64
                      /\ \A k \in 1..64 : d[k] = [sha256 |-> r.body, at |-> k]
                      /\ d # r.body
                /\ ( /\ r.content_type = <<"t","e","x","t","/","h","t","m","l">> /\ r.status = 200
                     /\ ~ str_in(<<"/","f","i","l","e","/">>, url_of(t))
                     /\ ~ TRANSLATIONS_EN_CATEGORY_URL_REGEX(url_of(t)) ) =>
                      d = (IF r.body = <<"o","k">> THEN <<"o","k">>
                           ELSE <<"<","p",">","?","h","a","s","h","=","t","e","l","e","g","r","a","m","-","c","r","a","w","l","e","r","<","/","p",">">>)

\* An image/png response was written as a digest, and a text/html one as text.
C5_Witness ==
    /\ \E t \in Tasks :
          /\ upstream[url_of(t)].content_type = <<"i","m","a","g","e","/","p","n","g">>
          /\ Len(wrote[t]) = 1 /\ Len(wrote[t][1].data) = 64
          /\ files[wrote[t][1].name] = wrote[t][1].data

C5_WitnessText ==
    \E t \in Tasks :
        /\ upstream[url_of(t)].content_type = <<"t","e","x","t","/","h","t","m","l">>
        /\ Len(wrote[t]) = 1
        /\ wrote[t][1].data = <<"<","p",">","?","h","a","s","h","=","t","e","l","e","g","r","a","m","-","c","r","a","w","l","e","r","<","/","p",">">>

\* The joined kept segments of the url under the output root, no extension.
BarePath(t) == path_join(OUTPUT_SITES_FOLDER, url_parts(url_of(t)))

\* The response of task t is classified StoreHashOnly by the design: a
\* binary/opaque content type, or the mislabeled-binary rule.
StoreHashOnly(t) ==
    LET r == upstream[url_of(t)]
    IN  \/ r.content_type \in BinaryTypes
        \/ str_in(<<"/","f","i","l","e","/">>, url_of(t)) /\ str_in(<<"t","e","x","t">>, r.content_type)

\* C6 (no extension for hash-only), as claimed.  Whenever a response is
\* classified StoreHashOnly the file written is the joined url segments with
\* no extension appended, for every url shape.
C6_HashOnlyNoExtension ==
    \A t \in Tasks :
        \A i \in 1..Len(wrote[t]) :
            StoreHashOnly(t) => wrote[t][i].name = BarePath(t)

\* The digest of the body of task t was written.
WroteDigest(t, i) ==
    LET d == wrote[t][i].data
    IN  Len(d) = 64 /\ \A k \in 1..64 : d[k] = [sha256 |-> upstream[url_of(t)].body, at |-> k]

TextRoute(t) == ~ stores_hash(t) /\ ~ collects_pages(t)

\* C8 (path of the text route).  The file written on the text route is the
\* kept url segments joined under the root, with '.html' appended exactly
\* when the last kept segment has no '.' or there is one kept segment:
\* example.com/a/b gives data/web/example.com/a/b.html, example.com/img.png
\* keeps its name.
C8_TextPath ==
    \A t \in Tasks :
        \A i \in 1..Len(wrote[t]) :
            TextRoute(t) =>
                LET parts == url_parts(url_of(t))
                    last  == parts[Len(parts)]
                    dot   == \E k \in 1..Len(last) : last[k] = "."
                    name  == wrote[t][i].name
                IN  /\ name = BarePath(t) \o (IF ~ dot \/ Len(parts) = 1
                                              THEN <<".","h","t","m","l">> ELSE <<>>)
                    /\ url_of(t) = <<"e","x","a","m","p","l","e",".","c","o","m","/","a","/","b">> =>
                           name = <<"d","a","t","a","/","w","e","b","/","e","x","a","m","p","l","e",".","c","o","m","/","a","/","b",".","h","t","m","l">>
                    /\ url_of(t) = <<"e","x","a","m","p","l","e",".","c","o","m","/","i","m","g",".","p","n","g">> =>
                           name = <<"d","a","t","a","/","w","e","b","/","e","x","a","m","p","l","e",".","c","o","m","/","i","m","g",".","p","n","g">>
                    /\ url_of(t) = <<"e","x","a","m","p","l","e",".","c","o","m">> =>
                           name = <<"d","a","t","a","/","w","e","b","/","e","x","a","m","p","l","e",".","c","o","m",".","h","t","m","l">>

C8_Witness ==
    \E t \in Tasks :
        /\ url_of(t) = <<"e","x","a","m","p","l","e",".","c","o","m","/","a","/","b">> /\ TextRoute(t)
        /\ Len(wrote[t]) = 1
        /\ wrote[t][1].name = <<"d","a","t","a","/","w","e","b","/","e","x","a","m","p","l","e",".","c","o","m","/","a","/","b",".","h","t","m","l">>

\* C9 (path collision), as claimed.  Distinct urls of a batch, two that
\* differ only in a trailing slash among them, have distinct output paths:
\* at no time do two tasks of the batch have the same output file open for
\* writing.
C9_NoPathCollision ==
    \A t1 \in Tasks, t2 \in Tasks :
        (t1 # t2 /\ pc[t1] = "write" /\ pc[t2] = "write") =>
            task_filename(t1) # task_filename(t2)

\* C10 (idempotence), as claimed.  When the second run of a batch against
\* the same upstream completes, the output files are those the first run
\* left, whatever transient failures either run met.
C10_Idempotent ==
    (run = 2 /\ batch = "complete") => files = prev

\* The tasks scheduled for url u.
TasksOf(u) == {t \in Tasks : url_of(t) = u}

\* C11 (deduplication).  Each distinct url of the input has exactly one
\* task, however often it is listed, and a task whose first attempt did not
\* end Retryable has issued exactly one GET when it is Done.
C11_Deduplication ==
    /\ \A u \in Range(input) : Cardinality(TasksOf(u)) = 1
    /\ \A t \in Tasks :
          (pc[t] = "done" /\ hist[t][1] # "Retryable") =>
              /\ gets[t] = 1 /\ Len(hist[t]) = 1
              /\ \A t2 \in TasksOf(url_of(t)) : t2 = t

\* A url listed three times was fetched once.
C11_Witness ==
    /\ Len(input) = 3 /\ input[1] = input[2] /\ input[2] = input[3]
    /\ batch = "complete"
    /\ \A t \in Tasks : gets[t] = 1 /\ hist[t] = <<"Success">>
    /\ Cardinality(Tasks) = 1

\* C12 (batch completion), as claimed.  When the batch call has returned or
\* raised, no task is still Attempting: every task has finished.
C12_NoTaskAttemptingAtEnd ==
    batch \in {"complete", "raised"} =>
        \A t \in Tasks : pc[t] \in {"done", "raised"}

\* C12, amended.  The tasks are launched together; the batch call returns
\* only when every task is Done, and it raises exactly when a task raised
\* an error that crawl does not catch (the other tasks may then still be
\* Attempting).
C12_ReturnsWhenAllDone ==
    /\ batch = "complete" => \A t \in Tasks : pc[t] = "done"
    /\ batch = "raised" <=> \E t \in Tasks : pc[t] = "raised"
    /\ \A t \in Tasks : gets[t] = 0 /\ hist[t] = <<>> => pc[t] = "get"

\* A batch of two tasks returned, both Done.
C12_Witness ==
    /\ Cardinality(Tasks) = 2 /\ batch = "complete"
    /\ \A t \in Tasks : pc[t] = "done" /\ gets[t] >= 1

\* Every finished attempt of task t ended in a Retryable outcome.
AllRetryable(t) == \A i \in 1..Len(hist[t]) : Retryable(hist[t], i)

\* The run ended: the batch completed with every task Done, or an error
\* that is not retryable ended it.
Ended ==
    \/ batch = "complete" /\ \A t \in Tasks : pc[t] = "done"
    \/ batch = "raised" /\ \E t \in Tasks : pc[t] = "raised" /\ Last(hist[t]) = "Fatal"

\* C13 (eventual completion).  Under weak fairness of every task, once the
\* upstream stops producing Retryable outcomes (and the endpoint serves its
\* empty page) every task reaches Done and the batch completes, unless an
\* error that is not retryable ends the run; and a task whose attempts all
\* ended Retryable is never Done but attempting again, whatever their number.
C13_EventualCompletion ==
    /\ <>[]Ended
    /\ [](\A t \in Tasks :
             AllRetryable(t) =>
                 /\ pc[t] \notin {"done", "raised"}
                 /\ gets[t] \in {Len(hist[t]), Len(hist[t]) + 1})

\* Two tasks are Done and the batch completed after the upstream failed as
\* often as it may.
C13_Witness ==
    /\ batch = "complete" /\ fails = MaxFail /\ Cardinality(Tasks) = 2
    /\ \A t \in Tasks : pc[t] = "done"
    /\ \E t \in Tasks : Len(hist[t]) > 1 /\ hist[t][1] = "Retryable"

\* The places (page, row) of the first n pages that hold key k.
PlacesOf(k, n) ==
    {pr \in (1..n) \X (1..3) :
        pr[2] <= Len(AllPages[pr[1]]) /\ AllPages[pr[1]][pr[2]].key = k}

\* The Record Set when each of the first n pages is delivered exactly once:
\* every key once, with the record of its last row in document order.
RecordSet(n) ==
    [k \in PageKeys(n) |->
        LET last == CHOOSE pr \in PlacesOf(k, n) :
                        \A qr \in PlacesOf(k, n) :
                            qr[1] < pr[1] \/ (qr[1] = pr[1] /\ qr[2] <= pr[2])
        IN  tr_record(AllPages[last[1]], last[2])]

\* Where the entry of key k starts in a serialized Record Set.
EntriesOf(d, k) ==
    LET entry == NL \o <<" "," "," "," ">> \o json_str(k) \o <<":"," ","{">>
    IN  {i \in 1..Len(d) : d[i] = "\n" /\ StartsWithAt(d, i, entry)}

\* C14 (Record Set determinism).  When the pagination ended with the empty
\* page, whatever offsets were requested again on the way, the Record Set
\* is the one of every page delivered exactly once, and the text written
\* holds each key exactly once, in ascending order of the keys.
C14_RecordSetDeterminism ==
    \A t \in Tasks :
        (Collected(t) /\ Last(posted[t]).outcome = "empty") =>
            /\ content[t] = RecordSet(npages)
            /\ \A i \in 1..Len(wrote[t]) :
                  LET at == [k \in PageKeys(npages) |-> EntriesOf(wrote[t][i].data, k)]
                  IN  /\ \A k \in DOMAIN at : Cardinality(at[k]) = 1
                      /\ \A k1 \in DOMAIN at, k2 \in DOMAIN at :
                            str_lt(k1, k2) =>
                                \A i1 \in at[k1], i2 \in at[k2] : i1 < i2

\* Two pages were collected although requests failed on the way, and the
\* keys were written in the order Back, Cancel, Login.
C14_Witness ==
    \E t \in Tasks :
        /\ Collected(t) /\ npages = 2 /\ Last(posted[t]).outcome = "empty"
        /\ \E i \in 1..Len(posted[t]) : RetryablePost(posted[t][i])
        /\ Len(wrote[t]) = 1
        /\ \E i1 \in EntriesOf(wrote[t][1].data, <<"B","a","c","k">>),
              i2 \in EntriesOf(wrote[t][1].data, <<"C","a","n","c","e","l">>),
              i3 \in EntriesOf(wrote[t][1].data, <<"L","o","g","i","n">>) : i1 < i2 /\ i2 < i3

\* The text written for body doc is the expected one and holds none of the
\* dynamic values.
RoundTrip(doc, d) ==
    /\ d = Expected(doc)
    /\ \A j \in 1..Len(doc) :
          doc[j].kind # "lit" => ~ str_in(Fragment(doc[j].kind).dyn, d)

\* C15 (normalization round trip), as claimed.  For a text body that holds
\* the fragments, the text written holds none of the dynamic values, holds
\* the placeholders in their place, and is unchanged everywhere else.
C15_RoundTrip ==
    \A t \in Tasks :
        \A i \in 1..Len(wrote[t]) :
            TextRoute(t) =>
                \A doc \in Docs :
                    upstream[url_of(t)].body = Render(doc) =>
                        RoundTrip(doc, wrote[t][i].data)

\* The same for the bodies whose fragments are each followed by a separator
\* (no second comment on the line of the generation comment).
C15_RoundTripSeparated ==
    \A t \in Tasks :
        \A i \in 1..Len(wrote[t]) :
            TextRoute(t) =>
                \A doc \in Docs \ {CommentThenMarkup} :
                    upstream[url_of(t)].body = Render(doc) =>
                        RoundTrip(doc, wrote[t][i].data)

\* C16 (fatal errors are not retried).  An attempt of a url that ended in an
\* error crawl does not catch (a failed open of the output file, a body that
\* does not decode) is the last attempt of that url: the error left the
\* retry loop and the batch, and no further GET is issued for the url.
C16_FatalNotRetried ==
    \A t \in Tasks :
        \A i \in 1..Len(hist[t]) :
            hist[t][i] = "Fatal" =>
                /\ i = Len(hist[t])
                /\ pc[t] = "raised"
                /\ batch = "raised"
                /\ gets[t] = Len(hist[t])

\* A url was retried after a Retryable attempt, and its next attempt ended
\* in a fatal error, in a batch of two tasks.
C16_Witness ==
    \E t \in Tasks :
        /\ Cardinality(Tasks) = 2
        /\ hist[t] = <<"Retryable", "Fatal">>
        /\ gets[t] = 2 /\ pc[t] = "raised" /\ batch = "raised"

\* C17 (offsets are fetched monotonically).  The offsets POSTed for a url
\* start at 0; each next one is the previous one or the previous one plus
\* 200, and it is the previous one plus 200 only when the previous POST was
\* answered 200 with a non-empty fragment; the same holds of the offset the
\* collector is about to POST.
C17_OffsetsMonotonic ==
    \A t \in Tasks :
        LET p    == posted[t]
            offs == [i \in 1..Len(p) |-> p[i].offset]
                        \o (IF pc[t] = "post" THEN <<offset[t]>> ELSE <<>>)
        IN  /\ offs # <<>> => offs[1] = 0
            /\ \A i \in 1..(Len(offs) - 1) :
                  /\ offs[i + 1] \in {offs[i], offs[i] + PageSize}
                  /\ offs[i + 1] = offs[i] + PageSize => p[i].outcome = "page"

\* Offsets 0, 200, 200, 400: the second page was requested again after a
\* failed request, and the offset moved on after each page.
C17_Witness ==
    \E t \in Tasks :
        /\ Len(posted[t]) = 4
        /\ [i \in 1..4 |-> posted[t][i].offset] = <<0, 200, 200, 400>>
        /\ posted[t][1].outcome = "page"
        /\ RetryablePost(posted[t][2])
        /\ posted[t][3].outcome = "page"

\* C18 (skip applies to the requests of the collector), as claimed.  After
\* a POST answered with a status that is not 200, 304, 302 or 5xx, the
\* collector does not request the offset of that POST again, whatever the
\* offset is.
C18_SkipNotRetried ==
    \A t \in Tasks :
        \A i \in 1..Len(posted[t]) :
            posted[t][i].outcome = "Skip" =>
                IF i < Len(posted[t])
                THEN posted[t][i + 1].offset # posted[t][i].offset
                ELSE ~ (pc[t] = "post" /\ offset[t] = posted[t][i].offset)

\* Every character of segment p is punctuation other than '.', or
\* whitespace (the empty segment included).
SolelyIllegal(p) == \A i \in 1..Len(p) : p[i] \in Range(ILLEGAL_PATH_CHARS)

\* C19 (segment filtering), as claimed.  Once the path of a url was derived,
\* its kept segments are the segments of the url split on '/', in order,
\* without those that are empty or made solely of punctuation other than
\* '.' and whitespace, and the file is these joined under the output root.
C19_SegmentFiltering ==
    \A t \in Tasks :
        (is_fetched(status[t]) /\ pc[t] \in {"read", "text", "post", "open", "write", "done"}) =>
            LET kept == SelectSeq(str_split(url_of(t), "/"),
                                  LAMBDA p : ~ SolelyIllegal(p))
            IN  /\ url_parts(url_of(t)) = kept
                /\ \E e \in {<<>>, <<".","h","t","m","l">>, <<".","j","s","o","n">>} :
                      task_filename(t) = path_join(OUTPUT_SITES_FOLDER, kept) \o e

\* The text after the first k substitutions of _crawl.
RECURSIVE After(_, _)
After(s, k) ==
    IF k = 0 THEN s
    ELSE re_sub(Kinds[k], Placeholder(Kinds[k]), After(s, k - 1))

\* The matches re.sub replaces in s from position i on, as <<start, end>>
\* (end exclusive).
RECURSIVE MatchesFrom(_, _, _)
MatchesFrom(rule, s, i) ==
    LET starts == {k \in i..Len(s) :
                      s[k] \in FirstChars(rule) /\ MatchEnd(rule, s, k) > 0}
    IN  IF starts = {} THEN {}
        ELSE LET k == CHOOSE m \in starts : \A n \in starts : m <= n
                 j == MatchEnd(rule, s, k)
             IN  {<<k, j>>} \cup MatchesFrom(rule, s, j)

\* The positions at which p occurs in s.
Occurrences(p, s) ==
    {i \in 1..(Len(s) - Len(p) + 1) : SubSeq(s, i, i + Len(p) - 1) = p}

\* In the normalization of body, no rule matches text that overlaps the
\* placeholder of an earlier rule, and the final text holds the placeholder
\* of every rule as many times as the rule wrote it.
Independent(body) ==
    \A k \in 2..7 :
        LET ph == Placeholder(Kinds[k])
        IN  /\ \A j \in (k + 1)..7 :
                  LET text == After(body, j - 1)
                  IN  \A m \in MatchesFrom(Kinds[j], text, 1), o \in Occurrences(ph, text) :
                          m[2] <= o \/ o + Len(ph) <= m[1]
            /\ Cardinality(Occurrences(ph, After(body, 7)))
                   >= Cardinality(MatchesFrom(Kinds[k], After(body, k - 1), 1))

\* C20 (normalizer rule independence), as claimed.  For every text body
\* written, no later rule matched text that consists of or overlaps a
\* placeholder inserted by an earlier rule, and every placeholder an earlier
\* rule wrote is in the text written.
C20_RuleIndependence ==
    \A t \in Tasks :
        \A i \in 1..Len(wrote[t]) :
            TextRoute(t) =>
                /\ wrote[t][i].data = After(upstream[url_of(t)].body, 7)
                /\ Independent(upstream[url_of(t)].body)

\* The same for the bodies whose fragments do not touch.
C20_RuleIndependenceSeparated ==
    \A t \in Tasks :
        \A i \in 1..Len(wrote[t]) :
            (TextRoute(t) /\ upstream[url_of(t)].body \notin Adjacent) =>
                /\ wrote[t][i].data = After(upstream[url_of(t)].body, 7)
                /\ Independent(upstream[url_of(t)].body)

\* C21 (record flag correctness), as claimed.  Every record the collector
\* holds was made from a row of a page served, and its has_binding flag is
\* true exactly when that row holds the binding marker.
C21_FlagCorrect ==
    \A t \in Tasks :
        \A k \in DOMAIN content[t] :
            \E p \in 1..Len(AllPages) :
                \E r \in 1..Len(AllPages[p]) :
                    LET row == AllPages[p][r]
                    IN  /\ row.key = k
                        /\ content[t][k].url = <<"h","t","t","p","s",":","/","/","t","r","a","n","s","l","a","t","i","o","n","s",".","t","e","l","e","g","r","a","m",".","o","r","g">> \o row.href
                        /\ content[t][k].has_binding = (row.binding # None)

\* Every attempt of task t so far ended in Retryable or Skip, and none is
\* under way.
OnlyFailedAttempts(t) ==
    /\ hist[t] # <<>>
    /\ \A i \in 1..Len(hist[t]) : hist[t][i] \in {"Retryable", "Skip"}
    /\ pc[t] \in {"get", "done"}

\* C22 (failed attempts leave the filesystem unchanged), as claimed.  While
\* the attempts of the url have all ended in Retryable or Skip, no directory
\* and no file was created; and the file of a url is written at most once,
\* by an attempt that ended in Success and was the last one.
C22_FailedAttemptsNoEffect ==
    \A t \in Tasks :
        /\ OnlyFailedAttempts(t) => dirs = {} /\ DOMAIN files = {} /\ wrote[t] = <<>>
        /\ Len(wrote[t]) <= 1
        /\ Len(wrote[t]) = 1 => pc[t] = "done" /\ Last(hist[t]) = "Success"

\* The part that is about files: failed attempts create and write no file,
\* and the file of a url is written at most once, by the last attempt.
C22_FailedAttemptsNoFile ==
    \A t \in Tasks :
        /\ OnlyFailedAttempts(t) => DOMAIN files = {} /\ wrote[t] = <<>>
        /\ Len(wrote[t]) <= 1
        /\ Len(wrote[t]) = 1 => pc[t] = "done" /\ Last(hist[t]) = "Success"

\* In this step the POST of task t for its offset, which is above 0, fails
\* with a disconnect, a timeout or a connection error.
TransportFailure(t) ==
    /\ pc[t] = "post" /\ offset[t] > 0
    /\ posted'[t] = Append(posted[t], [offset |-> offset[t], outcome |-> "transport"])

\* C23 (collector progress survives transient failures).  A transport error
\* on the POST for an offset above 0 leaves the collector about to POST the
\* same offset: the pagination is not reset, no GET is issued, the attempts
\* of the url are what they were, and the records of all the pages below
\* the offset are still held.
C23_ProgressSurvives ==
    [][\A t \in Tasks :
          TransportFailure(t) =>
              /\ pc'[t] = "post" /\ offset'[t] = offset[t]
              /\ gets'[t] = gets[t] /\ hist'[t] = hist[t]
              /\ content'[t] = content[t]
              /\ DOMAIN content'[t] = PageKeys(offset[t] \div PageSize)]_vars

\* The POST for offset 200 failed with a transport error, was issued again,
\* and the url ended with one GET, one attempt and the records of two pages.
C23_Witness ==
    \E t \in Tasks :
        /\ \E i \in 1..(Len(posted[t]) - 1) :
              /\ posted[t][i] = [offset |-> 200, outcome |-> "transport"]
              /\ posted[t][i + 1] = [offset |-> 200, outcome |-> "page"]
        /\ pc[t] = "done" /\ gets[t] = 1 /\ hist[t] = <<"Success">>
        /\ DOMAIN content[t] = PageKeys(2)

\* s ends with suffix.
EndsWith(s, suffix) ==
    Len(s) >= Len(suffix) /\ SubSeq(s, Len(s) - Len(suffix) + 1, Len(s)) = suffix

\* C24 (entry of the pagination route and what follows it).  The collector
\* runs for a url only after its GET was answered 200 or 304 with a content
\* type that is not hash-only (and the url is not on the hash route); what
\* is written for it is its JSON after the substitutions of the normalizer,
\* at a '.json' path; and what is written on the hash route is the digest
\* of the body, not a normalized text.
C24_PaginationRoute ==
    \A t \in Tasks :
        LET r == upstream[url_of(t)]
        IN  /\ (pc[t] = "post" \/ posted[t] # <<>>) =>
                  /\ is_fetched(status[t])
                  /\ ~ is_hashable_only_content_type(r.content_type)
                  /\ ~ stores_hash(t)
                  /\ collects_pages(t)
            /\ \A i \in 1..Len(wrote[t]) :
                  /\ posted[t] # <<>> =>
                        /\ wrote[t][i].data = Normalize(json_dumps(content[t]))
                        /\ EndsWith(wrote[t][i].name, <<".","j","s","o","n">>)
                  /\ stores_hash(t) =>
                        /\ wrote[t][i].data = get_hash(r.body)
                        /\ posted[t] = <<>>

\* A page was collected and the JSON written holds the placeholder of the
\* hash rule in place of the value a row was served with.
C24_Witness ==
    \E t \in Tasks :
        /\ pc[t] = "done" /\ Len(wrote[t]) = 1
        /\ \E i \in 1..Len(posted[t]) : posted[t][i].outcome = "page"
        /\ EndsWith(wrote[t][1].name, <<".","j","s","o","n">>)
        /\ str_in(<<"L","o","g"," ">> \o PAGE_API_HASH_TEMPLATE \o <<" ","i","n">>, wrote[t][1].data)
        /\ ~ str_in(<<"?","h","a","s","h","=","a","b","1","2">>, wrote[t][1].data)

=============================================================================
